---------------------------- MODULE Spec2Model ----------------------------
(* Dense-to-sparse checkpoint restore of t5x/contrib/moe/checkpoints.py:   *)
(* D2SCheckpointer._create_lazy_awaitable_array and the coroutine          *)
(* _read_d2s_ts, with its helpers read_d2s_slice_from_np,                  *)
(* _read_d2s_slice_from_ts and _broadcast_ffn.                             *)
(*                                                                         *)
(* Arrays are kept symbolically: an array is a view of a named dense       *)
(* content ("base"), one record per axis saying which axis of the base it  *)
(* walks (src, 0 for an axis np.repeat introduced), where it starts (lo)   *)
(* and how many indices it has (n).  Two views are the same array exactly  *)
(* when they pick the same elements of the same base in the same order,    *)
(* for every content the base may hold.                                    *)
EXTENDS Integers, Sequences, FiniteSets, TLC

VARIABLES inp, store, task

vars == <<inp, store, task>>

---------------------------------------------------------------------------
(* Python values *)

\* Python None, and a value that is not None (Optional[...] as a sequence
\* of length 0 or 1).
NoneV == <<>>

Some(x) == <<x>>

Val(o) == o[1]

Max(a, b) == IF a >= b THEN a ELSE b

Min(a, b) == IF a <= b THEN a ELSE b

\* A raised exception: what it is and what its message names.
Err(what, info) == [kind |-> "error", what |-> what, info |-> info]

\* A JSON dictionary has no kind; every other value says what it is.
HasKind(v) == "kind" \in DOMAIN v

IsErr(v) == HasKind(v) /\ v.kind = "error"

\* str.endswith
EndsWith(s, suf) ==
    /\ Len(s) >= Len(suf)
    /\ SubSeq(s, Len(s) - Len(suf) + 1, Len(s)) = suf

\* the operator `sub in s` on strings
Contains(s, sub) ==
    \E i \in 1..(Len(s) - Len(sub) + 1) : SubSeq(s, i, i + Len(sub) - 1) = sub

\* slice(start, stop): the step is always None in a local chunk slice.
Slice(a, b) == [start |-> a, stop |-> b]

\* slice.indices(n) for step None: the first index selected.
SliceStart(sl, n) ==
    IF sl.start = NoneV THEN 0
    ELSE IF Val(sl.start) < 0 THEN Max(Val(sl.start) + n, 0)
    ELSE Min(Val(sl.start), n)

\* slice.indices(n) for step None: one past the last index selected.
SliceStop(sl, n) ==
    IF sl.stop = NoneV THEN n
    ELSE IF Val(sl.stop) < 0 THEN Max(Val(sl.stop) + n, 0)
    ELSE Min(Val(sl.stop), n)

\* len(range(n)[sl])
SliceLen(sl, n) == Max(SliceStop(sl, n) - SliceStart(sl, n), 0)

\* seq[1:]
Rest(s) == IF s = <<>> THEN <<>> ELSE Tail(s)

---------------------------------------------------------------------------
(* numpy arrays *)

\* The whole dense array of content `base`.
FullArray(base, shape, dtype) ==
    [kind |-> "ndarray", base |-> base, dtype |-> dtype,
     ax |-> [j \in 1..Len(shape) |-> [src |-> j, lo |-> 0, n |-> shape[j]]]]

\* arr.shape
Shape(arr) == [j \in 1..Len(arr.ax) |-> arr.ax[j].n]

\* One axis of a view cut by a slice, with Python's clamping.
CutAxis(a, sl) ==
    [src |-> a.src, lo |-> a.lo + SliceStart(sl, a.n), n |-> SliceLen(sl, a.n)]

\* arr[sl] for a tuple of slices: basic indexing, the axes past len(sl) kept
\* whole; more slices than axes is an IndexError.
NpGetItem(arr, sl) ==
    IF Len(sl) > Len(arr.ax) THEN Err("IndexError", <<>>)
    ELSE [arr EXCEPT !.ax = [j \in 1..Len(arr.ax) |->
                                IF j <= Len(sl) THEN CutAxis(arr.ax[j], sl[j])
                                ELSE arr.ax[j]]]

\* Equality of arrays (np.array_equal, and the dtype): the same shape and
\* the same elements.  An array with an empty axis has no elements.
ArrEq(a, b) ==
    /\ a.kind = "ndarray" /\ b.kind = "ndarray"
    /\ a.base = b.base /\ a.dtype = b.dtype
    /\ Len(a.ax) = Len(b.ax)
    /\ \A j \in 1..Len(a.ax) : a.ax[j].n = b.ax[j].n /\ a.ax[j].src = b.ax[j].src
    /\ \/ \E j \in 1..Len(a.ax) : a.ax[j].n = 0
       \/ \A j \in 1..Len(a.ax) : a.ax[j].src # 0 => a.ax[j].lo = b.ax[j].lo

\* arr[i] for an index i of the leading axis, when that axis is a replicated
\* one: the entry is the array without the axis.
Entry(arr, i) == [arr EXCEPT !.ax = Tail(arr.ax)]

\* arr[None]: a new leading axis of extent 1.
NewAxis(arr) == [arr EXCEPT !.ax = <<[src |-> 0, lo |-> 0, n |-> 1]>> \o @]

\* np.repeat(arr, k, axis=0): every entry of the leading axis k times over.
\* Used on a leading axis of extent 1, where the entries are all the same.
Repeat0(arr, k) == [arr EXCEPT !.ax[1].n = @ * k]

---------------------------------------------------------------------------
(* JSON dictionaries: records, a key present or not *)

HasKey(d, k) == k \in DOMAIN d

\* del d[k]
DelKey(d, k) == [x \in DOMAIN d \ {k} |-> d[x]]

\* d with d[k] = v added
WithKey(d, k, v) == [x \in DOMAIN d \cup {k} |-> IF x = k THEN v ELSE d[x]]

---------------------------------------------------------------------------
(* The chunked array store (tensorstore) and the GDA deserializer, as the  *)
(* code uses them                                                          *)

\* The ts dtype name of a zarr metadata dtype.
TsDtypeName(z) ==
    CASE z = "<f4" -> "float32"
      [] z = "<u2" -> "uint16"
      [] OTHER -> z

\* ts.open(spec, open=True): the array must exist at the path and agree
\* with the constraints the spec states; a cast driver opens its base and
\* presents it in the cast dtype.
TsOpen(st, spec) ==
    LET cast == spec.driver = "cast"
        b    == IF cast THEN spec.base ELSE spec
        p    == b.kvstore.path
    IN  IF p \notin DOMAIN st THEN Err("NOT_FOUND", <<>>)
        ELSE IF \/ b.metadata.shape # st[p].shape
                \/ HasKey(b.metadata, "dtype") /\ b.metadata.dtype # st[p].dtype
                \/ HasKey(b, "dtype") /\ b.dtype # TsDtypeName(st[p].dtype)
             THEN Err("FAILED_PRECONDITION", <<>>)
        ELSE [kind |-> "tensorstore",
              arr  |-> FullArray(st[p].base, st[p].shape,
                                 IF cast THEN spec.dtype
                                 ELSE TsDtypeName(st[p].dtype))]

\* Whether a slice lies within an axis of extent n: the store takes
\* intervals, it does not clamp and does not count from the end.
InDomain(sl, n) ==
    /\ sl.start # NoneV => 0 <= Val(sl.start) /\ Val(sl.start) <= n
    /\ sl.stop # NoneV => 0 <= Val(sl.stop) /\ Val(sl.stop) <= n
    /\ sl.start # NoneV /\ sl.stop # NoneV => Val(sl.start) <= Val(sl.stop)

\* t[sl] on an opened handle: a lazy view, no I/O.
TsGetItem(t, sl) ==
    IF Len(sl) > Len(t.arr.ax) THEN Err("IndexError", <<>>)
    ELSE IF \E j \in 1..Len(sl) : ~InDomain(sl[j], t.arr.ax[j].n)
         THEN Err("OUT_OF_RANGE", <<>>)
    ELSE [t EXCEPT !.arr = NpGetItem(t.arr, sl)]

\* await t.read(): the view as an array in memory.
TsRead(t) == t.arr

\* await gda_serialization.async_deserialize(mesh, axes, spec): the entire
\* array of the spec, laid out over the mesh.
AsyncDeserialize(st, mesh, axes, spec) ==
    LET t == TsOpen(st, spec)
    IN  IF IsErr(t) THEN t
        ELSE [kind |-> "gda", mesh |-> mesh, axes |-> axes, arr |-> t.arr]

---------------------------------------------------------------------------
(* _read_d2s_ts and its helpers *)

\* The reference range of lines 152 and 204: range(1024).
RefRange == 1024

SlotM == <<"/", "m">>

SlotV == <<"/", "v">>

ExpertMark == <<"e", "x", "p", "e", "r", "t", "/">>

\* m_or_v
MOrV(name) == EndsWith(name, SlotM) \/ EndsWith(name, SlotV)

\* is_expert_param
IsExpertParam(name) == Contains(name, ExpertMark)

\* A variant that forgets the slot suffixes: every expert parameter is
\* broadcast, optimizer slots too.
BroadcastEligible_NoSlot(name) == IsExpertParam(name)

\* (not m_or_v) and is_expert_param
BroadcastEligible(name) == (~MOrV(name)) /\ IsExpertParam(name)

\* _broadcast_ffn
BroadcastFfn(arr, num_experts_per_slice) ==
    Repeat0(NewAxis(arr), num_experts_per_slice)

\* num_experts_per_slice = len(list(range(1024))[sl[0]])
NumExpertsPerSlice(sl) == SliceLen(sl[1], RefRange)

\* A variant that cuts the dense array by the whole local slice, the expert
\* component included.
ReadD2SSliceFromNp_FullSlice(compressed_arr, param_info) ==
    LET sl        == Val(param_info.local_chunk_info).slice
        arr_slice == NpGetItem(compressed_arr, sl)
    IN  IF IsErr(arr_slice) THEN arr_slice
        ELSE BroadcastFfn(arr_slice, NumExpertsPerSlice(sl))

\* read_d2s_slice_from_np
ReadD2SSliceFromNp(compressed_arr, param_info) ==
    LET sl        == Val(param_info.local_chunk_info).slice
        arr_slice == NpGetItem(compressed_arr, Rest(sl))
    IN  IF IsErr(arr_slice) THEN arr_slice
        ELSE BroadcastFfn(arr_slice, NumExpertsPerSlice(sl))

\* A variant that drops the leading slice component for every parameter.
ReadLiteral_DropLead(param_info, arr) ==
    IF param_info.local_chunk_info # NoneV
    THEN IF BroadcastEligible(param_info.name)
         THEN ReadD2SSliceFromNp(arr, param_info)
         ELSE NpGetItem(arr, Rest(Val(param_info.local_chunk_info).slice))
    ELSE arr

\* A variant that gives a broadcast-eligible literal an expert axis also
\* when there is no local slice.
ReadLiteral_BroadcastWhole(param_info, arr) ==
    IF param_info.local_chunk_info # NoneV
    THEN IF BroadcastEligible(param_info.name)
         THEN ReadD2SSliceFromNp(arr, param_info)
         ELSE NpGetItem(arr, Val(param_info.local_chunk_info).slice)
    ELSE IF BroadcastEligible(param_info.name) THEN BroadcastFfn(arr, 1)
    ELSE arr

\* The literal branch: an ndarray and a descriptor.
ReadLiteral(param_info, arr) ==
    IF param_info.local_chunk_info # NoneV
    THEN IF BroadcastEligible(param_info.name)
         THEN ReadD2SSliceFromNp(arr, param_info)
         ELSE NpGetItem(arr, Val(param_info.local_chunk_info).slice)
    ELSE arr

\* os.path.dirname
Dirname(path) == SubSeq(path, 1, Len(path) - 1)

\* checkpoints._update_ts_path_from_relative_to_absolute
UpdateTsPath(ckpt_dir, d) == [d EXCEPT !.kvstore.path = ckpt_dir \o @]

\* maybe_ts_spec.to_json(): a new dictionary.
ToJson(spec) == spec.json

\* A variant that deletes chunks and compressor in the spec itself.
SpecAfterResolve_InPlace(spec) ==
    [spec EXCEPT !.json.metadata = DelKey(DelKey(@, "chunks"), "compressor")]

\* What the caller's maybe_ts_spec holds once the spec is resolved: the
\* deletions are made in the dictionary to_json() returned, not in the spec.
SpecAfterResolve(spec) == spec

\* tmp_ts_spec_dict, resolved: chunks and compressor deleted, the path made
\* absolute.  A missing key is a KeyError.
ResolveSpec(spec, ckpt_path) ==
    LET d == ToJson(spec)
    IN  IF ~HasKey(d.metadata, "chunks") THEN Err("KeyError", <<"chunks">>)
        ELSE IF ~HasKey(d.metadata, "compressor")
             THEN Err("KeyError", <<"compressor">>)
        ELSE UpdateTsPath(
                 Dirname(ckpt_path),
                 [d EXCEPT !.metadata = DelKey(DelKey(@, "chunks"), "compressor")])

\* A variant that never strips the expert axis.
ShapesMatch_NoStrip(param_info, ts_spec_arr_shape) ==
    ts_spec_arr_shape = Val(param_info.shape)

\* shapes_match
ShapesMatch(param_info, ts_spec_arr_shape) ==
    IF BroadcastEligible(param_info.name)
    THEN ts_spec_arr_shape = Rest(Val(param_info.shape))
    ELSE ts_spec_arr_shape = Val(param_info.shape)

\* A variant that lets a mismatched shape through to the store.
ShapeCheck_Lenient(param_info, tmp) == [kind |-> "ok"]

\* The shape check: the ValueError of the mismatch names param_info.name,
\* ts_spec_arr_shape and param_info.shape.
ShapeCheck(param_info, tmp) ==
    IF param_info.shape # NoneV /\ ~ShapesMatch(param_info, tmp.metadata.shape)
    THEN Err("shape_mismatch",
             <<param_info.name, tmp.metadata.shape, Val(param_info.shape)>>)
    ELSE [kind |-> "ok"]

\* A variant that looks at the top-level dtype only.
IsLegacyUint16_TopOnly(tmp) == HasKey(tmp, "dtype") /\ tmp.dtype = "uint16"

\* The legacy dtype test.
IsLegacyUint16(tmp) ==
    \/ HasKey(tmp, "dtype") /\ tmp.dtype = "uint16"
    \/ HasKey(tmp.metadata, "dtype") /\ tmp.metadata.dtype = "<u2"

\* The cast adapter.
CastWrap(tmp, restore_dtype) ==
    IF restore_dtype # NoneV
    THEN [base |-> tmp, driver |-> "cast", dtype |-> Val(restore_dtype)]
    ELSE tmp

---------------------------------------------------------------------------
(* One restore task: the facade's call, then the coroutine from one        *)
(* suspension point to the next.  A task is the coroutine's locals: where  *)
(* it is suspended (pc), mesh and axes as the facade bound them, the       *)
(* resolved tmp_ts_spec_dict, the handle t, num_experts_per_slice (k), the *)
(* value returned or the exception raised (result), and the steps taken    *)
(* and the store calls issued so far, in order (log).                      *)

NewTask ==
    [pc |-> "new", called |-> FALSE, mesh |-> NoneV, axes |-> NoneV,
     tmp |-> NoneV, t |-> NoneV, k |-> 0, result |-> NoneV, log |-> <<>>]

\* return v, or raise v when v is an exception
Finish(tk, v, steps) ==
    [tk EXCEPT !.pc = "done", !.result = Some(v), !.log = @ \o steps]

\* _create_lazy_awaitable_array: mesh and axes are taken from the
\* partitioner and the descriptor only under use_gda.
CreateLazy(i) ==
    IF i.use_gda /\ i.param_info = NoneV
    THEN Finish(NewTask, Err("AttributeError", <<>>), <<>>)
    ELSE [NewTask EXCEPT
            !.pc   = "lazy",
            !.mesh = IF i.use_gda THEN Some(i.partitioner_mesh) ELSE NoneV,
            !.axes = IF i.use_gda THEN Val(i.param_info).axes ELSE NoneV]

\* A variant with the test of the axes turned round.
HostLocalRead_Flipped(mesh, axes) == mesh = NoneV \/ axes # NoneV

\* mesh is None or axes is None: the array is read on the host.
HostLocalRead(mesh, axes) == mesh = NoneV \/ axes = NoneV

\* The stored branch up to its first await: resolve, validate, wrap, and
\* issue ts.open or the distributed deserialize.
ReadStored(i, tk) ==
    LET tmp == ResolveSpec(i.maybe_ts_spec, i.ckpt_path)
    IN  IF IsErr(tmp) THEN Finish(tk, tmp, <<"resolve">>)
        ELSE IF i.param_info = NoneV
             THEN Finish(tk, Err("AttributeError", <<>>), <<"resolve", "validate">>)
        ELSE IF IsErr(ShapeCheck(Val(i.param_info), tmp))
             THEN Finish(tk, ShapeCheck(Val(i.param_info), tmp),
                         <<"resolve", "validate">>)
        ELSE IF IsLegacyUint16(tmp)
             THEN Finish(tk, Err("unsupported_uint16", <<>>),
                         <<"resolve", "validate">>)
        ELSE IF HostLocalRead(tk.mesh, tk.axes)
             THEN [tk EXCEPT !.pc  = "opening",
                             !.tmp = Some(CastWrap(tmp, i.restore_dtype)),
                             !.log = @ \o <<"resolve", "validate", "open">>]
        ELSE [tk EXCEPT !.pc  = "deserializing",
                        !.tmp = Some(CastWrap(tmp, i.restore_dtype)),
                        !.log = @ \o <<"resolve", "validate", "deserialize">>]

\* _read_d2s_ts from its call to its first await or its return.
ReadD2STs(i, tk) ==
    LET c == [tk EXCEPT !.called = TRUE]
    IN  IF i.maybe_ts_spec.kind = "ndarray" /\ i.param_info # NoneV
        THEN Finish(c, ReadLiteral(Val(i.param_info), i.maybe_ts_spec), <<>>)
        ELSE IF i.maybe_ts_spec.kind # "spec"
             THEN Finish(c, i.maybe_ts_spec, <<>>)
        ELSE ReadStored(i, c)

\* After await ts.open: the handle is sliced (a broadcast-eligible
\* parameter's by sl[1:], in _read_d2s_slice_from_ts) and the read issued.
AfterOpen(i, tk, st) ==
    LET t    == TsOpen(st, Val(tk.tmp))
        p    == Val(i.param_info)
        info == p.local_chunk_info # NoneV
        sl   == Val(p.local_chunk_info).slice
    IN  IF IsErr(t) THEN Finish(tk, t, <<>>)
        ELSE IF BroadcastEligible(p.name) /\ info
             THEN IF IsErr(TsGetItem(t, Rest(sl)))
                  THEN Finish(tk, TsGetItem(t, Rest(sl)), <<"slice">>)
                  ELSE [tk EXCEPT !.pc  = "reading_d2s",
                                  !.t   = Some(TsGetItem(t, Rest(sl))),
                                  !.k   = NumExpertsPerSlice(sl),
                                  !.log = @ \o <<"slice", "read">>]
        ELSE IF info
             THEN IF IsErr(TsGetItem(t, sl))
                  THEN Finish(tk, TsGetItem(t, sl), <<"slice">>)
                  ELSE [tk EXCEPT !.pc  = "reading",
                                  !.t   = Some(TsGetItem(t, sl)),
                                  !.log = @ \o <<"slice", "read">>]
        ELSE [tk EXCEPT !.pc = "reading", !.t = Some(t), !.log = @ \o <<"read">>]

\* After await compressed_arr.read() in _read_d2s_slice_from_ts.
AfterReadD2S(tk) ==
    Finish(tk, BroadcastFfn(TsRead(Val(tk.t)), tk.k), <<"broadcast">>)

\* After await t.read().
AfterRead(tk) == Finish(tk, TsRead(Val(tk.t)), <<>>)

\* After await async_deserialize.
AfterDeserialize(tk, st) ==
    Finish(tk, AsyncDeserialize(st, Val(tk.mesh), Val(tk.axes), Val(tk.tmp)), <<>>)

\* One restore run with no other task: what it returns or raises.
RunAlone(i, st) ==
    LET t0 == CreateLazy(i)
        t1 == IF t0.pc = "lazy" THEN ReadD2STs(i, t0) ELSE t0
        t2 == CASE t1.pc = "opening" -> AfterOpen(i, t1, st)
                [] t1.pc = "deserializing" -> AfterDeserialize(t1, st)
                [] OTHER -> t1
        t3 == CASE t2.pc = "reading_d2s" -> AfterReadD2S(t2)
                [] t2.pc = "reading" -> AfterRead(t2)
                [] OTHER -> t2
    IN  t3.result

---------------------------------------------------------------------------
(* The inputs *)

\* Extents of the small arrays.
SmallExperts == 4

SmallRows == 2

SmallCols == 3

\* Concurrent restore tasks.
NumTasks == 2

NameExpert == <<"l", "a", "y", "e", "r", "0", "/", "e", "x", "p", "e", "r", "t", "/", "w", "i">>

NameSlotM == <<"l", "a", "y", "e", "r", "0", "/", "e", "x", "p", "e", "r", "t", "/", "w", "i", "/", "m">>

NameSlotV == <<"l", "a", "y", "e", "r", "0", "/", "e", "x", "p", "e", "r", "t", "/", "w", "i", "/", "v">>

NameDense == <<"l", "a", "y", "e", "r", "0", "/", "m", "l", "p", "/", "w", "i">>

Names == {NameExpert, NameSlotM, NameSlotV, NameDense}

ShapeA == <<8, 512, 2048>>

DenseShape == <<512, 2048>>

WideShape == <<512, 4096>>

Small3 == <<SmallExperts, SmallRows, SmallCols>>

Small2 == <<SmallRows, SmallCols>>

Small1 == <<SmallCols>>

TargetShapes == {ShapeA, DenseShape, WideShape, Small3, Small2, Small1}

\* Scenario A's local slice.
SliceA == <<Slice(Some(2), Some(4)), Slice(NoneV, NoneV), Slice(NoneV, NoneV)>>

\* The slices a partitioner gives an axis of extent n: the leading axis
\* whole, its first half, from its middle on, or its second quarter; another
\* axis whole or its second half.
LeadSlices(n) ==
    {Slice(NoneV, NoneV), Slice(Some(0), Some(n \div 2)),
     Slice(Some(n \div 2), NoneV), Slice(Some(n \div 4), Some(n \div 2))}

RestSlices(n) == {Slice(NoneV, NoneV), Slice(Some(n \div 2), Some(n))}

SlicesFor(shape) ==
    CASE Len(shape) = 1 -> {<<a>> : a \in LeadSlices(shape[1])}
      [] Len(shape) = 2 ->
           {<<a, b>> : a \in LeadSlices(shape[1]), b \in RestSlices(shape[2])}
      [] OTHER ->
           {<<a, b, c>> : a \in LeadSlices(shape[1]), b \in RestSlices(shape[2]),
                          c \in RestSlices(shape[3])}

ChunkInfos(slices) == {NoneV} \cup {Some([slice |-> s]) : s \in slices}

\* The store's content: the arrays of the checkpoint in directory "ckpt".
StoredArrays ==
    {[name |-> "dense", shape |-> DenseShape, dtype |-> "<f4"],
     [name |-> "sparse", shape |-> ShapeA, dtype |-> "<f4"],
     [name |-> "s3", shape |-> Small3, dtype |-> "<f4"],
     [name |-> "s2", shape |-> Small2, dtype |-> "<f4"],
     [name |-> "s1", shape |-> Small1, dtype |-> "<f4"],
     [name |-> "legacy", shape |-> Small2, dtype |-> "<u2"]}

StoreInit ==
    [p \in {<<"ckpt", e.name>> : e \in StoredArrays} |->
        LET e == CHOOSE x \in StoredArrays : x.name = p[2]
        IN  [base |-> e.name, shape |-> e.shape, dtype |-> e.dtype]]

CkptPath == <<"ckpt", "checkpoint">>

\* The spec the checkpoint holds for a stored array, as JSON.
SpecJson(e) ==
    [driver   |-> "zarr",
     kvstore  |-> [driver |-> "file", path |-> <<e.name>>],
     metadata |-> [shape |-> e.shape, dtype |-> e.dtype, chunks |-> e.shape,
                   compressor |-> "gzip"]]

\* The specs: of each stored array with the dtype in the metadata, or there
\* and at the top level; of the legacy array also with the dtype at the top
\* level only; of an array that is not in the store; and a spec whose
\* metadata lacks the compressor.
Specs ==
    {[kind |-> "spec", json |-> SpecJson(e)] : e \in StoredArrays}
    \cup {[kind |-> "spec",
           json |-> WithKey(SpecJson(e), "dtype", TsDtypeName(e.dtype))] :
             e \in StoredArrays}
    \cup {[kind |-> "spec",
           json |-> WithKey([SpecJson(e) EXCEPT !.metadata = DelKey(@, "dtype")],
                            "dtype", TsDtypeName(e.dtype))] :
             e \in {x \in StoredArrays : x.dtype = "<u2"}}
    \cup {[kind |-> "spec",
           json |-> SpecJson([name |-> "gone", shape |-> Small2, dtype |-> "<f4"])],
          [kind |-> "spec",
           json |-> [SpecJson([name |-> "s2", shape |-> Small2, dtype |-> "<f4"])
                        EXCEPT !.metadata = DelKey(@, "compressor")]]}

\* The same contents as arrays in memory.
Literal(e) == FullArray(e.name, e.shape, TsDtypeName(e.dtype))

Literals == {Literal(e) : e \in {x \in StoredArrays : x.dtype = "<f4"}}

Scalar == [kind |-> "scalar", v |-> 7]

ArraySpecs == Specs \cup Literals \cup {Scalar}

Descriptor(name, shape, lci, axes) ==
    [name |-> name, shape |-> shape, local_chunk_info |-> lci, axes |-> axes]

\* use_gda and the descriptor's axes: axes are read only under use_gda.
GdaCases ==
    {[use_gda |-> FALSE, axes |-> Some("axes")],
     [use_gda |-> TRUE, axes |-> NoneV],
     [use_gda |-> TRUE, axes |-> Some("axes")]}

\* The descriptors: a local slice is one the partitioner cut from the target
\* shape; a descriptor without a target shape has a slice of the small
\* shapes.  None is no descriptor.
ParamInfos(axes) ==
    UNION {{Some(Descriptor(nm, Some(sh), lci, axes)) :
               nm \in Names, lci \in ChunkInfos(SlicesFor(sh))} :
             sh \in TargetShapes}
    \cup {Some(Descriptor(nm, NoneV, lci, axes)) :
            nm \in Names,
            lci \in ChunkInfos(SlicesFor(Small3) \cup SlicesFor(Small2))}
    \cup {NoneV}

RestoreDtypes == {NoneV, Some("bfloat16")}

Input(pi, v, rd, gda) ==
    [param_info |-> pi, maybe_ts_spec |-> v, ckpt_path |-> CkptPath,
     restore_dtype |-> rd, use_gda |-> gda, partitioner_mesh |-> "mesh"]

\* The restores run side by side: scenario A's and a small descriptor, with
\* and without a local slice, of a stored array, a literal, a legacy array
\* and an array that is missing; one of them through the mesh.
ConcInputs ==
    {Input(Some(Descriptor(nm, Some(c.shape), c.lci, Some("axes"))),
           c.v, NoneV, c.gda) :
        nm \in Names,
        c \in {[shape |-> ShapeA, lci |-> Some([slice |-> SliceA]), gda |-> FALSE,
                v |-> [kind |-> "spec",
                       json |-> SpecJson([name |-> "dense", shape |-> DenseShape,
                                          dtype |-> "<f4"])]],
               [shape |-> Small2, lci |-> NoneV, gda |-> FALSE,
                v |-> [kind |-> "spec",
                       json |-> SpecJson([name |-> "s2", shape |-> Small2,
                                          dtype |-> "<f4"])]],
               [shape |-> Small2, lci |-> NoneV, gda |-> TRUE,
                v |-> [kind |-> "spec",
                       json |-> SpecJson([name |-> "s2", shape |-> Small2,
                                          dtype |-> "<f4"])]],
               [shape |-> Small3,
                lci |-> Some([slice |-> <<Slice(Some(0), Some(1)),
                                          Slice(NoneV, NoneV),
                                          Slice(NoneV, NoneV)>>]),
                gda |-> FALSE,
                v |-> Literal([name |-> "s2", shape |-> Small2, dtype |-> "<f4"])],
               [shape |-> Small2, lci |-> NoneV, gda |-> FALSE,
                v |-> [kind |-> "spec",
                       json |-> SpecJson([name |-> "legacy", shape |-> Small2,
                                          dtype |-> "<u2"])]],
               [shape |-> Small2, lci |-> NoneV, gda |-> FALSE,
                v |-> [kind |-> "spec",
                       json |-> SpecJson([name |-> "gone", shape |-> Small2,
                                          dtype |-> "<f4"])]]}}

---------------------------------------------------------------------------
(* The state machine *)

\* One restore.
Init ==
    /\ \E g \in GdaCases :
         \E pi \in ParamInfos(g.axes), v \in ArraySpecs, rd \in RestoreDtypes :
            inp = [t \in {1} |-> Input(pi, v, rd, g.use_gda)]
    /\ store = StoreInit
    /\ task = [t \in {1} |-> NewTask]

\* Restores of distinct parameters, one task each.
InitConc ==
    /\ inp \in {f \in [1..NumTasks -> ConcInputs] :
                  \A a, b \in 1..NumTasks :
                     a # b => Val(f[a].param_info).name # Val(f[b].param_info).name}
    /\ store = StoreInit
    /\ task = [t \in 1..NumTasks |-> NewTask]

\* The checkpoint manager calls the facade for the parameter.
Create ==
    \E t \in DOMAIN task :
        /\ task[t].pc = "new"
        /\ task' = [task EXCEPT ![t] = CreateLazy(inp[t])]
        /\ UNCHANGED <<inp, store>>

\* The lazy array is awaited: _read_d2s_ts runs to its return or first await.
Await ==
    \E t \in DOMAIN task :
        /\ task[t].pc = "lazy"
        /\ task' = [task EXCEPT ![t] = ReadD2STs(inp[t], task[t])]
        /\ inp' = [inp EXCEPT ![t].maybe_ts_spec =
                      IF @.kind = "spec" THEN SpecAfterResolve(@) ELSE @]
        /\ UNCHANGED store

\* ts.open completes.
OpenDone ==
    \E t \in DOMAIN task :
        /\ task[t].pc = "opening"
        /\ task' = [task EXCEPT ![t] = AfterOpen(inp[t], task[t], store)]
        /\ UNCHANGED <<inp, store>>

\* The read of _read_d2s_slice_from_ts completes.
ReadD2SDone ==
    \E t \in DOMAIN task :
        /\ task[t].pc = "reading_d2s"
        /\ task' = [task EXCEPT ![t] = AfterReadD2S(task[t])]
        /\ UNCHANGED <<inp, store>>

\* The read of _read_d2s_ts completes.
ReadDone ==
    \E t \in DOMAIN task :
        /\ task[t].pc = "reading"
        /\ task' = [task EXCEPT ![t] = AfterRead(task[t])]
        /\ UNCHANGED <<inp, store>>

\* The distributed deserialize completes.
DeserializeDone ==
    \E t \in DOMAIN task :
        /\ task[t].pc = "deserializing"
        /\ task' = [task EXCEPT ![t] = AfterDeserialize(task[t], store)]
        /\ UNCHANGED <<inp, store>>

Next ==
    \/ Create
    \/ Await
    \/ OpenDone
    \/ ReadD2SDone
    \/ ReadDone
    \/ DeserializeDone

Spec == Init /\ [][Next]_vars

SpecConc == InitConc /\ [][Next]_vars

---------------------------------------------------------------------------
(* What the properties speak of *)

Tasks == DOMAIN task

HasPi(t) == inp[t].param_info # NoneV

Pi(t) == Val(inp[t].param_info)

IsLit(t) == inp[t].maybe_ts_spec.kind = "ndarray"

IsSpec(t) == inp[t].maybe_ts_spec.kind = "spec"

HasSlice(t) == HasPi(t) /\ Pi(t).local_chunk_info # NoneV

Sl(t) == Val(Pi(t).local_chunk_info).slice

HasShape(t) == HasPi(t) /\ Pi(t).shape # NoneV

TargetShape(t) == Val(Pi(t).shape)

\* _read_d2s_ts was called and has returned or raised.
Returned(t) == task[t].called /\ task[t].pc = "done"

\* _read_d2s_ts was called and ran at least to its first await.
Ran(t) == task[t].called

Res(t) == Val(task[t].result)

IsArr(v) == v.kind = "ndarray"

\* The restore reads on the host: no mesh, or no axes.
HostLocal(t) == task[t].mesh = NoneV \/ task[t].axes = NoneV

\* Broadcast-eligible, by the name: it contains "expert/" and ends with
\* neither "/m" nor "/v".
Eligible(name) ==
    /\ Contains(name, ExpertMark)
    /\ ~EndsWith(name, SlotM)
    /\ ~EndsWith(name, SlotV)

\* The stored spec's metadata holds the keys the resolution deletes.
Resolvable(t) ==
    /\ HasKey(inp[t].maybe_ts_spec.json.metadata, "chunks")
    /\ HasKey(inp[t].maybe_ts_spec.json.metadata, "compressor")

DiskShape(t) == inp[t].maybe_ts_spec.json.metadata.shape

\* The on-disk shape validation expects.
ExpectedOnDisk(t) ==
    IF Eligible(Pi(t).name) THEN Rest(TargetShape(t)) ELSE TargetShape(t)

\* The spec's dtype is the legacy 16-bit unsigned one.
Legacy(t) ==
    \/ /\ HasKey(inp[t].maybe_ts_spec.json, "dtype")
       /\ inp[t].maybe_ts_spec.json.dtype = "uint16"
    \/ /\ HasKey(inp[t].maybe_ts_spec.json.metadata, "dtype")
       /\ inp[t].maybe_ts_spec.json.metadata.dtype = "<u2"

\* The stored spec passes the shape check and the dtype check.
Validated(t) ==
    /\ IsSpec(t) /\ HasPi(t) /\ Resolvable(t)
    /\ HasShape(t) => DiskShape(t) = ExpectedOnDisk(t)
    /\ ~Legacy(t)

AbsPath(t) == Dirname(inp[t].ckpt_path) \o inp[t].maybe_ts_spec.json.kvstore.path

InStore(t) == AbsPath(t) \in DOMAIN store

\* The dense array the value holds: the literal, or the stored array in the
\* dtype the restore asks for.
StoredDense(t) ==
    IF IsLit(t) THEN inp[t].maybe_ts_spec
    ELSE FullArray(store[AbsPath(t)].base, store[AbsPath(t)].shape,
                   IF inp[t].restore_dtype # NoneV THEN Val(inp[t].restore_dtype)
                   ELSE TsDtypeName(store[AbsPath(t)].dtype))

StoreErrors == {"NOT_FOUND", "FAILED_PRECONDITION", "OUT_OF_RANGE", "IndexError"}

---------------------------------------------------------------------------
(* C1 *)

\* The indices the leading component selects of the target's expert axis.
SelectedExperts(t) == SliceLen(Sl(t)[1], TargetShape(t)[1])

\* C1: a broadcast-eligible parameter restored on the host with a local
\* slice, from a literal array or a validated stored array, comes back with
\* a leading axis of as many entries as the leading slice component selects
\* of the target's expert axis, every entry the dense array sliced by
\* local_slice[1:].  (Stated for a dense array of the target's shape without
\* the expert axis.)
C1_BroadcastExtent ==
    \A t \in Tasks :
        (/\ Returned(t) /\ HasSlice(t) /\ HasShape(t) /\ HostLocal(t)
         /\ Eligible(Pi(t).name)
         /\ IsLit(t) \/ (Validated(t) /\ InStore(t))
         /\ Shape(StoredDense(t)) = Rest(TargetShape(t))
         /\ IsArr(Res(t)))
        => /\ Len(Res(t).ax) >= 1
           /\ Res(t).ax[1].src = 0
           /\ Res(t).ax[1].n = SelectedExperts(t)
           /\ \A e \in 0..(Res(t).ax[1].n - 1) :
                 ArrEq(Entry(Res(t), e), NpGetItem(StoredDense(t), Rest(Sl(t))))

---------------------------------------------------------------------------
(* C2 *)

\* C2: a parameter that is not broadcast-eligible, restored on the host with
\* a local slice, comes back as stored_array[local_slice]: from a literal
\* exactly that (an IndexError where Python raises one); from a validated
\* stored array that array, with the axes of the stored array and none
\* added, and nothing else unless the store itself fails.
C2_PlainSlice ==
    \A t \in Tasks :
        (/\ Returned(t) /\ HasSlice(t) /\ HostLocal(t) /\ ~Eligible(Pi(t).name))
        => /\ IsLit(t) => Res(t) = NpGetItem(inp[t].maybe_ts_spec, Sl(t))
           /\ (Validated(t) /\ InStore(t))
                => \/ IsErr(Res(t)) /\ Res(t).what \in StoreErrors /\ ~HasShape(t)
                   \/ /\ ArrEq(Res(t), NpGetItem(StoredDense(t), Sl(t)))
                      /\ Len(Res(t).ax) = Len(store[AbsPath(t)].shape)
                      /\ \A j \in 1..Len(Res(t).ax) : Res(t).ax[j].src = j

\* A slot parameter's stored array was cut by its local slice.
C2_Witness ==
    \E t \in Tasks :
        /\ Returned(t) /\ HasSlice(t) /\ HostLocal(t) /\ ~Eligible(Pi(t).name)
        /\ IsSpec(t) /\ IsArr(Res(t))
        /\ Pi(t).name = NameSlotM
        /\ \E j \in 1..Len(Res(t).ax) : Res(t).ax[j].lo > 0

---------------------------------------------------------------------------
(* C3 *)

\* C3: with a target shape in the descriptor, the shape check of a resolved
\* stored spec passes exactly when the on-disk shape is the expected one
\* (the target shape without its leading axis for a broadcast-eligible
\* parameter, the target shape otherwise); otherwise the restore raises the
\* shape-mismatch error, which names the parameter, the on-disk shape and
\* the descriptor's shape, and returns no array.
C3_ShapeValidation ==
    \A t \in Tasks :
        (/\ Ran(t) /\ IsSpec(t) /\ HasShape(t) /\ Resolvable(t))
        => /\ DiskShape(t) = ExpectedOnDisk(t)
                => ~(task[t].pc = "done" /\ IsErr(Res(t))
                       /\ Res(t).what = "shape_mismatch")
           /\ DiskShape(t) # ExpectedOnDisk(t)
                => /\ task[t].pc = "done"
                   /\ Res(t) = Err("shape_mismatch",
                                   <<Pi(t).name, DiskShape(t), TargetShape(t)>>)

\* A broadcast-eligible parameter whose dense array passed the check and
\* was opened.
C3_Witness ==
    \E t \in Tasks :
        /\ Ran(t) /\ IsSpec(t) /\ HasShape(t) /\ Resolvable(t)
        /\ Eligible(Pi(t).name)
        /\ DiskShape(t) = ExpectedOnDisk(t)
        /\ task[t].pc = "opening"

---------------------------------------------------------------------------
(* C4 *)

\* C4 as claimed: a resolved spec with the legacy dtype raises the
\* unsupported-dtype error whatever the other inputs are.
C4_AlwaysDtypeError ==
    \A t \in Tasks :
        (/\ Ran(t) /\ IsSpec(t) /\ HasPi(t) /\ Resolvable(t) /\ Legacy(t))
        => /\ task[t].pc = "done"
           /\ Res(t) = Err("unsupported_uint16", <<>>)

\* C4, amended: a resolved spec with the legacy dtype never yields an array
\* and never reaches the store: the restore raises the unsupported-dtype
\* error when the shape check passes or the descriptor has no target shape,
\* and the shape-mismatch error when the shape check fails.
C4_LegacyRejected ==
    \A t \in Tasks :
        (/\ Ran(t) /\ IsSpec(t) /\ HasPi(t) /\ Resolvable(t) /\ Legacy(t))
        => /\ task[t].pc = "done"
           /\ task[t].log = <<"resolve", "validate">>
           /\ IF HasShape(t) /\ DiskShape(t) # ExpectedOnDisk(t)
              THEN IsErr(Res(t)) /\ Res(t).what = "shape_mismatch"
              ELSE Res(t) = Err("unsupported_uint16", <<>>)

\* A legacy spec of the right shape, its dtype in the metadata only, was
\* rejected for its dtype.
C4_Witness ==
    \E t \in Tasks :
        /\ Ran(t) /\ IsSpec(t) /\ HasPi(t) /\ Resolvable(t) /\ Legacy(t)
        /\ ~HasKey(inp[t].maybe_ts_spec.json, "dtype")
        /\ HasShape(t) /\ DiskShape(t) = ExpectedOnDisk(t)
        /\ task[t].pc = "done"
        /\ Res(t) = Err("unsupported_uint16", <<>>)

---------------------------------------------------------------------------
(* C5 *)

\* Scenario B: the slot parameter "layer0/expert/wi/m", target shape
\* (8, 512, 2048), local slice (slice(2, 4), slice(None), slice(None)), the
\* dense array of shape (512, 2048) given as a literal or as a stored spec,
\* restored on the host with no restore dtype.
ScenarioB(t) ==
    /\ HasSlice(t) /\ HasShape(t)
    /\ Pi(t).name = NameSlotM
    /\ TargetShape(t) = ShapeA
    /\ Sl(t) = SliceA
    /\ inp[t].restore_dtype = NoneV
    /\ \/ inp[t].maybe_ts_spec = FullArray("dense", DenseShape, "float32")
       \/ /\ IsSpec(t) /\ Resolvable(t) /\ ~Legacy(t)
          /\ inp[t].maybe_ts_spec.json.kvstore.path = <<"dense">>

\* C5 as claimed: scenario B returns the stored array sliced by the
\* components after the first, of shape (512, 2048), not broadcast.
C5_ScenarioBReturnsDense ==
    \A t \in Tasks :
        (Returned(t) /\ HostLocal(t) /\ ScenarioB(t))
        => /\ IsArr(Res(t))
           /\ Shape(Res(t)) = DenseShape
           /\ ArrEq(Res(t), NpGetItem(StoredDense(t), Rest(SliceA)))

\* C5, amended: scenario B returns no array.  From the stored spec the
\* restore raises the shape-mismatch error (on disk (512, 2048), expected
\* (8, 512, 2048)) before the store is opened; from the literal the three
\* slices applied to the array of two axes raise an IndexError.
C5_ScenarioBFails ==
    \A t \in Tasks :
        (Ran(t) /\ HostLocal(t) /\ ScenarioB(t))
        => /\ task[t].pc = "done"
           /\ IsSpec(t) => /\ Res(t) = Err("shape_mismatch",
                                           <<NameSlotM, DenseShape, ShapeA>>)
                           /\ task[t].log = <<"resolve", "validate">>
           /\ IsLit(t) => Res(t) = Err("IndexError", <<>>)

\* Scenario B was run from the stored spec.
C5_Witness ==
    \E t \in Tasks : Returned(t) /\ HostLocal(t) /\ ScenarioB(t) /\ IsSpec(t)

---------------------------------------------------------------------------
(* C6 *)

\* C6: a literal array with no local slice in the descriptor (or with no
\* descriptor), and a value that is neither a literal array nor a stored
\* spec, are returned as they are: the result is the argument, no step of
\* the stored branch ran and nothing of the store was touched, whatever the
\* name, the restore dtype and the mesh and axes are.
C6_PassThrough ==
    \A t \in Tasks :
        (/\ Ran(t)
         /\ \/ IsLit(t) /\ ~HasSlice(t)
            \/ ~IsLit(t) /\ ~IsSpec(t))
        => /\ task[t].pc = "done"
           /\ Res(t) = inp[t].maybe_ts_spec
           /\ task[t].log = <<>>
           /\ task[t].tmp = NoneV /\ task[t].t = NoneV

\* A broadcast-eligible literal with a restore dtype and a mesh and axes
\* given, and no local slice, came back.
C6_Witness ==
    \E t \in Tasks :
        /\ Returned(t) /\ IsLit(t) /\ HasPi(t) /\ ~HasSlice(t)
        /\ Eligible(Pi(t).name)
        /\ inp[t].restore_dtype # NoneV
        /\ task[t].mesh # NoneV /\ task[t].axes # NoneV

---------------------------------------------------------------------------
(* C7 *)

\* The place of a step in the order resolve, validate, open or deserialize,
\* slice, read, broadcast.
StepRank(s) ==
    CASE s = "resolve" -> 1
      [] s = "validate" -> 2
      [] s = "open" -> 3
      [] s = "deserialize" -> 3
      [] s = "slice" -> 4
      [] s = "read" -> 5
      [] s = "broadcast" -> 6

Took(t, s) == \E j \in 1..Len(task[t].log) : task[t].log[j] = s

\* The stored spec fails the shape check or the legacy dtype check.
FailsValidation(t) ==
    /\ IsSpec(t) /\ HasPi(t) /\ Resolvable(t)
    /\ \/ HasShape(t) /\ DiskShape(t) # ExpectedOnDisk(t)
       \/ Legacy(t)

\* C7: in the restore of a stored spec the steps are taken in the order
\* resolve, validate, open, slice, read, broadcast, none twice and none
\* before the one it needs; when the shape check or the legacy dtype check
\* fails the restore has raised that error by its first suspension, with no
\* open, read or deserialize issued, no handle held and no array returned.
C7_StepOrder ==
    \A t \in Tasks :
        /\ \A a, b \in 1..Len(task[t].log) :
              a < b => StepRank(task[t].log[a]) < StepRank(task[t].log[b])
        /\ Took(t, "validate") => Took(t, "resolve")
        /\ (Took(t, "open") \/ Took(t, "deserialize")) => Took(t, "validate")
        /\ Took(t, "slice") => Took(t, "open")
        /\ Took(t, "read") => Took(t, "open")
        /\ Took(t, "broadcast") => Took(t, "slice") /\ Took(t, "read")
        /\ (task[t].pc = "done" /\ IsArr(Res(t)) /\ IsSpec(t)) => Took(t, "read")
        /\ (Ran(t) /\ FailsValidation(t))
             => /\ task[t].pc = "done"
                /\ IsErr(Res(t))
                /\ Res(t).what \in {"shape_mismatch", "unsupported_uint16"}
                /\ task[t].log = <<"resolve", "validate">>
                /\ task[t].tmp = NoneV /\ task[t].t = NoneV

\* A broadcast-eligible parameter ran through all six steps.
C7_Witness ==
    \E t \in Tasks :
        /\ Returned(t)
        /\ task[t].log = <<"resolve", "validate", "open", "slice", "read", "broadcast">>

---------------------------------------------------------------------------
(* C8 *)

\* C8: with the restores of distinct parameters interleaved at their
\* suspension points in every way, a task that has finished holds what its
\* restore returns or raises when run alone, and no step of any task
\* changes a descriptor, an array spec or the stored arrays.
C8_Isolation ==
    /\ [](\A t \in Tasks :
             task[t].pc = "done" => task[t].result = RunAlone(inp[t], store))
    /\ [][inp' = inp /\ store' = store]_vars

\* Two restores are suspended at once, one at its open and one at its read.
C8_Witness ==
    \E a, b \in Tasks :
        /\ a # b
        /\ task[a].pc = "opening"
        /\ task[b].pc \in {"reading", "reading_d2s"}

---------------------------------------------------------------------------
(* C9 *)

---------------------------------------------------------------------------
(* C10 *)

\* The same restore with the stored array's content given as a literal.
AsLiteral(t) ==
    [inp[t] EXCEPT !.maybe_ts_spec =
        FullArray(store[AbsPath(t)].base, store[AbsPath(t)].shape,
                  TsDtypeName(store[AbsPath(t)].dtype))]

\* C10: when the restore of a stored spec on the host, with no restore
\* dtype, returns an array, the restore of the same content given as a
\* literal array under the same descriptor returns an equal array.
C10_LiteralAgrees ==
    \A t \in Tasks :
        (/\ Returned(t) /\ IsSpec(t) /\ HostLocal(t)
         /\ inp[t].restore_dtype = NoneV
         /\ IsArr(Res(t)))
        => /\ RunAlone(AsLiteral(t), store) # NoneV
           /\ ArrEq(Res(t), Val(RunAlone(AsLiteral(t), store)))

\* A stored array was sliced and broadcast, and one was sliced only.
C10_Witness ==
    \E t \in Tasks :
        /\ Returned(t) /\ IsSpec(t) /\ HostLocal(t)
        /\ inp[t].restore_dtype = NoneV
        /\ IsArr(Res(t))
        /\ Took(t, "broadcast")
        /\ \E j \in 1..Len(Res(t).ax) : Res(t).ax[j].lo > 0

=============================================================================
